---- MODULE Spec2Model ----
(***************************************************************************)
(* Model of hugo_backup_tool/hugo_backup_final.py: the incremental         *)
(* transform-and-sync pass of HugoBlogBackup.                              *)
(*                                                                         *)
(* Text is modelled as sequences of one-character strings.  A document is  *)
(* its front matter, its list of markdown links and its trailing blank     *)
(* space; the regular expressions of the code act on the links.            *)
(***************************************************************************)
EXTENDS Integers, Sequences, FiniteSets, TLC

VARIABLES
    cfg,            \* ConfigManager.config: the part each run reads
    fs_dirs,        \* category keys whose source directory exists
    src_docs,       \* source tree: document slot -> file state
    src_pics,       \* source asset root: asset path -> file state
    dst_docs,       \* destination tree: document slot -> file state
    dst_pics,       \* destination asset root: asset path -> file state
    readme,         \* backup_root/README.md
    articles,       \* self.articles
    used_images,    \* self.used_images
    updated_files,  \* self.updated_files
    skipped,        \* copy_used_images: the images counted in skipped_count
    unused_count,   \* copy_used_images: unused_count as logged
    pc,             \* position of the run inside backup()
    cat_i,          \* backup(): index of the category being processed
    todo,           \* the files (or images) the current loop still has to visit
    run,            \* 1 for the first run of backup(), 2 for the second
    writes,         \* write operations done on the destination in this run
    snap,           \* the destination as it was when this run started
    arg,            \* input of the function under check (function specs)
    ret             \* its result

vars == <<cfg, fs_dirs, src_docs, src_pics, dst_docs, dst_pics, readme,
          articles, used_images, updated_files, skipped, unused_count,
          pc, cat_i, todo, run, writes, snap, arg, ret>>

(***************************************************************************)
(* Bounds of the model.                                                    *)
(***************************************************************************)
MaxDocs == 2        \* documents in a source tree
MaxNameLen == 9     \* characters of a filename given to extract_date_from_filename
MaxCats == 2        \* categories in readme.categories (generate_readme check)
MaxPatterns == 2    \* from_patterns of path_corrections.images
MaxPathLen == 3     \* characters of a link path given to fix_paths_in_content

(***************************************************************************)
(* Text helpers.                                                           *)
(***************************************************************************)
Str0 == <<>>

SeqsUpTo(S, n) == UNION {[1..k -> S] : k \in 0..n}

StartsWith(s, p) == Len(p) <= Len(s) /\ SubSeq(s, 1, Len(p)) = p

EndsWith(s, p) == Len(p) <= Len(s) /\ SubSeq(s, Len(s) - Len(p) + 1, Len(s)) = p

Drop(s, n) == SubSeq(s, n + 1, Len(s))

\* str.rstrip("/")
RStripSlash(s) ==
    LET keep == {k \in 0..Len(s) : \A i \in (k + 1)..Len(s) : s[i] = "/"}
        k0 == CHOOSE k \in keep : \A j \in keep : k <= j
    IN SubSeq(s, 1, k0)

\* str.split('#')[0]
BeforeHash(s) ==
    LET hs == {i \in 1..Len(s) : s[i] = "#"}
    IN IF hs = {} THEN s
       ELSE SubSeq(s, 1, (CHOOSE i \in hs : \A j \in hs : i <= j) - 1)

\* str.lower() on the letters the model uses
LowerChar(c) ==
    CASE c = "M" -> "m"
      [] c = "D" -> "d"
      [] OTHER -> c

Lower(s) == [i \in 1..Len(s) |-> LowerChar(s[i])]

DigitChars == <<"0", "1", "2", "3", "4", "5", "6", "7", "8", "9">>

IsDigit(c) == \E i \in 1..10 : DigitChars[i] = c

DigitVal(c) == (CHOOSE i \in 1..10 : DigitChars[i] = c) - 1

\* int() of a string of decimal digits
RECURSIVE ToInt(_)
ToInt(s) ==
    IF s = <<>> THEN 0
    ELSE 10 * ToInt(SubSeq(s, 1, Len(s) - 1)) + DigitVal(s[Len(s)])

\* str() of a natural number below 100
ToStr(n) ==
    IF n < 10 THEN <<DigitChars[n + 1]>>
    ELSE <<DigitChars[(n \div 10) + 1], DigitChars[(n % 10) + 1]>>

(***************************************************************************)
(* extract_date_from_filename                                              *)
(***************************************************************************)
\* re.match(r'^(\d{4})(\d{2})(\d{2})_', filename)
DateMatch(filename) ==
    /\ Len(filename) >= 9
    /\ \A i \in 1..8 : IsDigit(filename[i])
    /\ filename[9] = "_"

NoDate == [year |-> 0, month |-> 0, day |-> 0, date_str |-> Str0]

extract_date_from_filename(filename, date_format) ==
    IF DateMatch(filename)
    THEN LET year == SubSeq(filename, 1, 4)
             month == SubSeq(filename, 5, 6)
             day == SubSeq(filename, 7, 8)
             date_str ==
                 IF date_format = "YYYY-MM-DD"
                 THEN year \o <<"-">> \o month \o <<"-">> \o day
                 \* "Y", "M" and "D" stand for 年, 月 and 日
                 ELSE year \o <<"Y">> \o ToStr(ToInt(month)) \o <<"M">>
                           \o ToStr(ToInt(day)) \o <<"D">>
         IN [year |-> ToInt(year), month |-> ToInt(month), day |-> ToInt(day),
             date_str |-> date_str]
    ELSE NoDate

(***************************************************************************)
(* Document text.  A link is [img, alt, path, close]: ![alt](path) when    *)
(* img, [alt](path) otherwise, followed by close more ")".  A raw document *)
(* is [front, title, links, pad]:                                          *)
(* front is "title" (a header with a title field), "untitled" (a header    *)
(* without one) or "none"; pad counts trailing blank lines.                *)
(***************************************************************************)
UnknownTitle == <<"?">>     \* the sentinel "未知标题"

extract_frontmatter_title(content) ==
    IF content.front = "title" THEN content.title ELSE UnknownTitle

\* the index of the first pattern that clean_path starts with, 0 when none
FirstPattern(clean_path, path_patterns) ==
    LET hits == {i \in 1..Len(path_patterns) : StartsWith(clean_path, path_patterns[i])}
    IN IF hits = {} THEN 0 ELSE CHOOSE i \in hits : \A j \in hits : i <= j

extract_image_paths(content, path_patterns) ==
    LET matches == {i \in 1..Len(content.links) :
                       content.links[i].img /\ content.links[i].path # <<>>}
        clean(i) == BeforeHash(content.links[i].path)
    IN {Drop(clean(i), Len(path_patterns[FirstPattern(clean(i), path_patterns)])) :
           i \in {j \in matches : FirstPattern(clean(j), path_patterns) # 0}}

\* re.sub(rf'!\[([^\]]*)\]\({escaped_pattern}([^)]+)\)', rf'![\1]({to_pattern}\2)', ...)
SubImage(link, pattern, to_pattern) ==
    IF link.img /\ StartsWith(link.path, pattern) /\ Len(link.path) > Len(pattern)
    THEN [link EXCEPT !.path = to_pattern \o Drop(link.path, Len(pattern))]
    ELSE link

\* re.sub(rf'\[([^\]]+)\]\({escaped_old}([^)]*)?(\))', rf'[\1]({new_dir}\2\3)', ...):
\* group 3 is the ")" of the link, and the replacement writes one more
SubArticle(link, old_dir, new_dir) ==
    LET old_pattern == <<"/">> \o old_dir \o <<"/">>
    IN IF link.alt # <<>> /\ StartsWith(link.path, old_pattern)
       THEN [link EXCEPT !.path = new_dir \o Drop(link.path, Len(old_pattern)),
                         !.close = @ + 1]
       ELSE link

\* re.sub(rf'\[([^\]]+)\]\({escaped_old_simple}(/[^)]*)?(\))', ...)
SubArticleSimple(link, old_dir, new_dir) ==
    LET old_pattern_simple == <<"/">> \o old_dir
    IN IF /\ link.alt # <<>>
          /\ \/ link.path = old_pattern_simple
             \/ StartsWith(link.path, old_pattern_simple \o <<"/">>)
       THEN [link EXCEPT !.path = RStripSlash(new_dir)
                                      \o Drop(link.path, Len(old_pattern_simple)),
                         !.close = @ + 1]
       ELSE link

\* the loop over from_patterns, in configured order
RECURSIVE FixImages(_, _, _)
FixImages(link, from_patterns, to_pattern) ==
    IF from_patterns = <<>> THEN link
    ELSE FixImages(SubImage(link, Head(from_patterns), to_pattern),
                   Tail(from_patterns), to_pattern)

\* the loop over article_corrections.items()
RECURSIVE FixArticles(_, _)
FixArticles(link, article_corrections) ==
    IF article_corrections = <<>> THEN link
    ELSE LET c == Head(article_corrections)
         IN FixArticles(
                SubArticleSimple(SubArticle(link, c.old, c.new), c.old, c.new),
                Tail(article_corrections))

fix_paths_in_content(links, from_patterns, to_pattern, article_corrections) ==
    [i \in 1..Len(links) |->
        FixArticles(FixImages(links[i], from_patterns, to_pattern),
                    article_corrections)]

\* the rendered text: "# title", a blank line, the stripped body
process_markdown_content(content, c) ==
    [title |-> extract_frontmatter_title(content),
     body |-> fix_paths_in_content(content.links, c.from_patterns, c.to_pattern,
                                   c.article_corrections)]

is_markdown_file(filename, c) ==
    \E ext \in c.markdown_extensions : EndsWith(Lower(filename), ext)

should_ignore_file(filename, c) == filename \in c.ignore_files

(***************************************************************************)
(* generate_readme.  A category of readme.categories is                    *)
(* [key, name, has_order, order]; the manifest is the sequence of its      *)
(* sections.                                                               *)
(***************************************************************************)
DefaultOrder == 999

\* an ordering key that puts the categories without one first
CategoryOrderFirst(category_config) ==
    IF category_config.has_order THEN category_config.order ELSE 0

\* key=lambda x: x[1].get('order', 999)
CategoryOrder(category_config) ==
    IF category_config.has_order THEN category_config.order ELSE DefaultOrder

\* sorted(categories_config.items(), key=...): ascending, equal keys keep
\* their order in the configuration
SortedCategories(categories_config) ==
    LET n == Len(categories_config)
        key(i) == CategoryOrder(categories_config[i])
        rank(i) == Cardinality({j \in 1..n :
                       \/ key(j) < key(i)
                       \/ key(j) = key(i) /\ j < i}) + 1
    IN [r \in 1..n |-> categories_config[CHOOSE i \in 1..n : rank(i) = r]]

\* key=lambda x: (x.year, x.month, x.day)
DateKey(article) == article.year * 10000 + article.month * 100 + article.day

\* sorted(articles_by_year[year], key=..., reverse=True): descending, equal
\* keys keep their order in the list
SortedByDate(year_articles) ==
    LET n == Len(year_articles)
        key(i) == DateKey(year_articles[i])
        rank(i) == Cardinality({j \in 1..n :
                       \/ key(j) > key(i)
                       \/ key(j) = key(i) /\ j < i}) + 1
    IN [r \in 1..n |-> year_articles[CHOOSE i \in 1..n : rank(i) = r]]

\* the articles of the bucket at the positions idx, in the bucket's order
Select(bucket, idx) ==
    LET nth(r) == CHOOSE i \in idx : Cardinality({j \in idx : j < i}) = r - 1
    IN [r \in 1..Cardinality(idx) |-> bucket[nth(r)]]

\* one "* date_str [title](path)" or "* [title](path)" line
DatedLine(article) ==
    [date_str |-> article.date_str, title |-> article.title, path |-> article.path]

UndatedLine(article) ==
    [date_str |-> Str0, title |-> article.title, path |-> article.path]

\* the section of one category: its "## year" groups, newest first, then "## 其他"
Section(category_config, bucket) ==
    LET years == {bucket[i].year : i \in {j \in 1..Len(bucket) : bucket[j].year > 0}}
        \* sorted(articles_by_year.keys(), reverse=True)
        year_seq == [r \in 1..Cardinality(years) |->
                        CHOOSE y \in years : Cardinality({z \in years : z > y}) = r - 1]
        group(y) ==
            LET year_articles ==
                    SortedByDate(Select(bucket, {i \in 1..Len(bucket) : bucket[i].year = y}))
            IN [year |-> y,
                lines |-> [i \in 1..Len(year_articles) |-> DatedLine(year_articles[i])]]
        no_date_articles == Select(bucket, {i \in 1..Len(bucket) : bucket[i].year = 0})
    IN [key |-> category_config.key,
        name |-> category_config.name,
        placeholder |-> bucket = <<>>,
        years |-> [i \in 1..Len(year_seq) |-> group(year_seq[i])],
        other |-> [i \in 1..Len(no_date_articles) |-> UndatedLine(no_date_articles[i])]]

generate_readme(categories_config, buckets) ==
    LET sorted_categories == SortedCategories(categories_config)
    IN [i \in 1..Len(sorted_categories) |->
           Section(sorted_categories[i],
                   IF sorted_categories[i].key \in DOMAIN buckets
                   THEN buckets[sorted_categories[i].key]
                   ELSE <<>>)]

(***************************************************************************)
(* Files.  A document slot is [cat, dir, name]: the file name under dir    *)
(* ("" for the category root) of the category's source directory.  A file  *)
(* state says whether the file exists and can be read; a destination       *)
(* document also says whether it can be written and whether its parent     *)
(* directory can be created.                                               *)
(***************************************************************************)
NameJan == <<"2", "0", "2", "3", "0", "1", "1", "5", "_", "a", ".", "m", "d">>
NameJanB == <<"2", "0", "2", "3", "0", "1", "1", "5", "_", "b", ".", "m", "d">>
NameMar == <<"2", "0", "2", "3", "0", "3", "0", "1", "_", "c", ".", "m", "d">>
NameOld == <<"2", "0", "2", "2", "1", "2", "3", "1", "_", "n", ".", "m", "d">>
NamePost == <<"p", "o", "s", "t", ".", "M", "D">>
NameIndex == <<"_", "i", ".", "m", "d">>
NameLogo == <<"l", ".", "p", "n", "g">>

SlotA == [cat |-> "posts", dir |-> "", name |-> NameJan]
SlotB == [cat |-> "posts", dir |-> "sub", name |-> NamePost]
SlotC == [cat |-> "notes", dir |-> "", name |-> NameOld]
SlotIndex == [cat |-> "posts", dir |-> "", name |-> NameIndex]
SlotLogo == [cat |-> "posts", dir |-> "", name |-> NameLogo]

RealSlots == {SlotA, SlotB, SlotC}
DocSlots == RealSlots \cup {SlotIndex, SlotLogo}

PicA == <<"a">>
PicB == <<"b">>
PicC == <<"c">>
Assets == {PicA, PicB, PicC}

\* ---\ntitle: T\n---\n![x](p/a)
RawA == [front |-> "title", title |-> <<"T">>, pad |-> 0,
         links |-> <<[img |-> TRUE, alt |-> <<"x">>, path |-> <<"p", "/", "a">>,
                      close |-> 0]>>]

\* ![](/p/b#f) [t](/o/z) ![y](h/c), followed by a blank line
RawB == [front |-> "none", title |-> <<>>, pad |-> 1,
         links |-> <<[img |-> TRUE, alt |-> <<>>,
                      path |-> <<"/", "p", "/", "b", "#", "f">>, close |-> 0],
                     [img |-> FALSE, alt |-> <<"t">>, path |-> <<"/", "o", "/", "z">>,
                      close |-> 0],
                     [img |-> TRUE, alt |-> <<"y">>, path |-> <<"h", "/", "c">>,
                      close |-> 0]>>]

RawDocs == {RawA, RawB}

NoContent == [title |-> <<>>, body |-> <<>>]
StaleContent == [title |-> <<"o", "l", "d">>, body |-> <<>>]

NoDoc == [exists |-> FALSE, readable |-> TRUE, raw |-> RawA]

NoTarget == [exists |-> FALSE, readable |-> TRUE, writable |-> TRUE,
             dir_ok |-> TRUE, content |-> NoContent]

NoPic == [exists |-> FALSE, readable |-> TRUE, data |-> 0]

DefaultCfg ==
    [source_keys |-> <<"posts", "notes", "pics">>,
     categories |-> <<[key |-> "posts", name |-> "posts", has_order |-> TRUE, order |-> 1],
                      [key |-> "notes", name |-> "notes", has_order |-> TRUE, order |-> 2]>>,
     date_format |-> "YYYY-MM-DD",
     ignore_files |-> {NameIndex},
     markdown_extensions |-> {<<".", "m", "d">>},
     path_patterns |-> << <<"p", "/">>, <<"/", "p", "/">> >>,
     from_patterns |-> << <<"p", "/">>, <<"/", "p", "/">> >>,
     to_pattern |-> <<"i", "/">>,
     article_corrections |-> <<[old |-> <<"o">>, new |-> <<"/", "n", "/">>]>>]

(***************************************************************************)
(* get_file_hash and file_needs_update                                     *)
(***************************************************************************)
get_file_hash(file) ==
    IF file.exists /\ file.readable THEN <<"md5", file.data>> ELSE Str0

file_needs_update(source_file, target_file) ==
    IF ~target_file.exists THEN TRUE
    ELSE get_file_hash(source_file) # get_file_hash(target_file)

(***************************************************************************)
(* HugoBlogBackup.__init__: a bucket for every category of                 *)
(* readme.categories.                                                      *)
(***************************************************************************)
InitArticles(c) ==
    [k \in {c.categories[i].key : i \in 1..Len(c.categories)} |-> <<>>]

NoWrites == [docs |-> {}, pics |-> {}, readme |-> 0]

Construct(c) ==
    /\ articles = InitArticles(c)
    /\ used_images = {}
    /\ updated_files = <<>>

(***************************************************************************)
(* backup(): the steps of one run.                                         *)
(***************************************************************************)
Category == cfg.source_keys[cat_i]

\* str(target_file.relative_to(self.backup_root))
TargetPath(f) ==
    <<f.cat, "/">> \o (IF f.dir = "" THEN <<>> ELSE <<f.dir, "/">>) \o f.name

ArticleOf(f, content) ==
    LET d == extract_date_from_filename(f.name, cfg.date_format)
    IN [title |-> extract_frontmatter_title(content), filename |-> f.name,
        path |-> TargetPath(f), year |-> d.year, month |-> d.month, day |-> d.day,
        date_str |-> d.date_str]

\* lines 293-299: compare the rendered text with the destination file
NeedsUpdate(target, processed_content) ==
    IF target.exists
    THEN IF target.readable THEN target.content # processed_content ELSE TRUE
    ELSE TRUE

\* ensure_target_dirs, then the loop over self.source_dirs
Start ==
    /\ pc = "start"
    /\ pc' = "next_cat"
    /\ cat_i' = 1
    /\ UNCHANGED <<cfg, fs_dirs, src_docs, src_pics, dst_docs, dst_pics, readme,
                   articles, used_images, updated_files, skipped, unused_count,
                   todo, run, writes, snap, arg, ret>>

Advance ==
    /\ cat_i' = cat_i + 1
    /\ UNCHANGED <<cfg, fs_dirs, src_docs, src_pics, dst_docs, dst_pics, readme,
                   articles, used_images, updated_files, skipped, unused_count,
                   pc, todo, run, writes, snap, arg, ret>>

\* if category != 'pics'
SkipPics ==
    /\ pc = "next_cat" /\ cat_i <= Len(cfg.source_keys)
    /\ Category = "pics"
    /\ Advance

\* process_markdown_files: the source directory does not exist
SourceDirMissing ==
    /\ pc = "next_cat" /\ cat_i <= Len(cfg.source_keys)
    /\ Category # "pics" /\ Category \notin fs_dirs
    /\ Advance

\* process_markdown_files: source_dir.rglob('*')
EnterCategory ==
    /\ pc = "next_cat" /\ cat_i <= Len(cfg.source_keys)
    /\ Category # "pics" /\ Category \in fs_dirs
    /\ todo' = {f \in DocSlots : f.cat = Category /\ src_docs[f].exists}
    /\ pc' = "docs"
    /\ UNCHANGED <<cfg, fs_dirs, src_docs, src_pics, dst_docs, dst_pics, readme,
                   articles, used_images, updated_files, skipped, unused_count,
                   cat_i, run, writes, snap, arg, ret>>

LeaveCategory ==
    /\ pc = "docs" /\ todo = {}
    /\ pc' = "next_cat"
    /\ cat_i' = cat_i + 1
    /\ UNCHANGED <<cfg, fs_dirs, src_docs, src_pics, dst_docs, dst_pics, readme,
                   articles, used_images, updated_files, skipped, unused_count,
                   todo, run, writes, snap, arg, ret>>

\* the file passes the filters of lines 256-262
Passes(f) == is_markdown_file(f.name, cfg) /\ ~should_ignore_file(f.name, cfg)

\* the loop goes on to the next file, the run's state as it is
Continue(f) ==
    /\ todo' = todo \ {f}
    /\ UNCHANGED <<cfg, fs_dirs, src_docs, src_pics, dst_docs, dst_pics, readme,
                   articles, used_images, updated_files, skipped, unused_count,
                   pc, cat_i, run, writes, snap, arg, ret>>

\* line 256: not a markdown file
SkipNotMarkdown(f) ==
    /\ pc = "docs" /\ f \in todo
    /\ ~is_markdown_file(f.name, cfg)
    /\ Continue(f)

\* line 259: an ignored file
IgnoreFile(f) ==
    /\ pc = "docs" /\ f \in todo
    /\ is_markdown_file(f.name, cfg) /\ should_ignore_file(f.name, cfg)
    /\ Continue(f)

\* line 267: target_file.parent.mkdir raises, outside the try: the exception
\* leaves process_markdown_files and backup()
MkdirFails(f) ==
    /\ pc = "docs" /\ f \in todo
    /\ Passes(f) /\ ~dst_docs[f].dir_ok
    /\ pc' = "failed"
    /\ UNCHANGED <<cfg, fs_dirs, src_docs, src_pics, dst_docs, dst_pics, readme,
                   articles, used_images, updated_files, skipped, unused_count,
                   cat_i, todo, run, writes, snap, arg, ret>>

\* line 271: read_text raises; caught at line 311
ReadFails(f) ==
    /\ pc = "docs" /\ f \in todo
    /\ Passes(f) /\ dst_docs[f].dir_ok /\ ~src_docs[f].readable
    /\ Continue(f)

Readable(f) ==
    /\ pc = "docs" /\ f \in todo
    /\ Passes(f) /\ dst_docs[f].dir_ok /\ src_docs[f].readable

Referenced(f) == extract_image_paths(src_docs[f].raw, cfg.path_patterns)

\* line 287: self.articles[category] raises KeyError; caught at line 311
NoBucket(f) ==
    /\ Readable(f)
    /\ f.cat \notin DOMAIN articles
    /\ used_images' = used_images \cup Referenced(f)
    /\ todo' = todo \ {f}
    /\ UNCHANGED <<cfg, fs_dirs, src_docs, src_pics, dst_docs, dst_pics, readme,
                   articles, updated_files, skipped, unused_count,
                   pc, cat_i, run, writes, snap, arg, ret>>

\* lines 272-287: the references and the record of the document
Record(f) ==
    /\ Readable(f)
    /\ f.cat \in DOMAIN articles
    /\ used_images' = used_images \cup Referenced(f)
    /\ articles' = [articles EXCEPT
                       ![f.cat] = Append(@, ArticleOf(f, src_docs[f].raw))]
    /\ todo' = todo \ {f}

\* line 301: the rendered text is what the destination holds
SkipUnchanged(f) ==
    /\ Record(f)
    /\ ~NeedsUpdate(dst_docs[f], process_markdown_content(src_docs[f].raw, cfg))
    /\ UNCHANGED <<cfg, fs_dirs, src_docs, src_pics, dst_docs, dst_pics, readme,
                   updated_files, skipped, unused_count,
                   pc, cat_i, run, writes, snap, arg, ret>>

\* lines 306-309
WriteFile(f) ==
    /\ Record(f)
    /\ NeedsUpdate(dst_docs[f], process_markdown_content(src_docs[f].raw, cfg))
    /\ dst_docs[f].writable
    /\ dst_docs' = [dst_docs EXCEPT
                       ![f].exists = TRUE,
                       ![f].content = process_markdown_content(src_docs[f].raw, cfg)]
    /\ updated_files' = Append(updated_files, <<f.cat, "/">> \o f.name)
    /\ writes' = [writes EXCEPT !.docs = @ \cup {f}]
    /\ UNCHANGED <<cfg, fs_dirs, src_docs, src_pics, dst_pics, readme,
                   skipped, unused_count, pc, cat_i, run, snap, arg, ret>>

\* line 306: write_text raises; caught at line 311
WriteFails(f) ==
    /\ Record(f)
    /\ NeedsUpdate(dst_docs[f], process_markdown_content(src_docs[f].raw, cfg))
    /\ ~dst_docs[f].writable
    /\ UNCHANGED <<cfg, fs_dirs, src_docs, src_pics, dst_docs, dst_pics, readme,
                   updated_files, skipped, unused_count,
                   pc, cat_i, run, writes, snap, arg, ret>>

\* the loop of backup() is over
CategoriesDone ==
    /\ pc = "next_cat" /\ cat_i > Len(cfg.source_keys)
    /\ pc' = "pics"
    /\ UNCHANGED <<cfg, fs_dirs, src_docs, src_pics, dst_docs, dst_pics, readme,
                   articles, used_images, updated_files, skipped, unused_count,
                   cat_i, todo, run, writes, snap, arg, ret>>

(***************************************************************************)
(* copy_used_images                                                        *)
(***************************************************************************)
\* source_pics = self.source_dirs.get('pics') is set and exists
HasPics ==
    /\ \E i \in 1..Len(cfg.source_keys) : cfg.source_keys[i] = "pics"
    /\ "pics" \in fs_dirs

SourcePic(image_path) ==
    IF image_path \in DOMAIN src_pics THEN src_pics[image_path] ELSE NoPic

\* line 321: no source asset directory
NoPicsDir ==
    /\ pc = "pics" /\ ~HasPics
    /\ pc' = "readme"
    /\ UNCHANGED <<cfg, fs_dirs, src_docs, src_pics, dst_docs, dst_pics, readme,
                   articles, used_images, updated_files, skipped, unused_count,
                   cat_i, todo, run, writes, snap, arg, ret>>

\* lines 325-338: for image_path in self.used_images
EnterCopy ==
    /\ pc = "pics" /\ HasPics
    /\ pc' = "copy"
    /\ todo' = used_images
    /\ skipped' = {}
    /\ UNCHANGED <<cfg, fs_dirs, src_docs, src_pics, dst_docs, dst_pics, readme,
                   articles, used_images, updated_files, unused_count,
                   cat_i, run, writes, snap, arg, ret>>

\* line 342: the reference names no file of the source asset directory
DanglingReference(image_path) ==
    /\ pc = "copy" /\ image_path \in todo
    /\ ~SourcePic(image_path).exists
    /\ Continue(image_path)

\* lines 347-349
SkipImage(image_path) ==
    /\ pc = "copy" /\ image_path \in todo
    /\ SourcePic(image_path).exists
    /\ ~file_needs_update(src_pics[image_path], dst_pics[image_path])
    /\ skipped' = skipped \cup {image_path}
    /\ todo' = todo \ {image_path}
    /\ UNCHANGED <<cfg, fs_dirs, src_docs, src_pics, dst_docs, dst_pics, readme,
                   articles, used_images, updated_files, unused_count,
                   pc, cat_i, run, writes, snap, arg, ret>>

\* lines 352-354: shutil.copy2 copies the bytes and the mode
CopyImage(image_path) ==
    /\ pc = "copy" /\ image_path \in todo
    /\ SourcePic(image_path).exists
    /\ file_needs_update(src_pics[image_path], dst_pics[image_path])
    /\ src_pics[image_path].readable
    /\ dst_pics' = [dst_pics EXCEPT ![image_path] = src_pics[image_path]]
    /\ updated_files' = Append(updated_files, <<"pics", "/">> \o image_path)
    /\ writes' = [writes EXCEPT !.pics = @ \cup {image_path}]
    /\ todo' = todo \ {image_path}
    /\ UNCHANGED <<cfg, fs_dirs, src_docs, src_pics, dst_docs, readme,
                   articles, used_images, skipped, unused_count,
                   pc, cat_i, run, snap, arg, ret>>

\* line 355: shutil.copy2 raises on a source it cannot read
CopyFails(image_path) ==
    /\ pc = "copy" /\ image_path \in todo
    /\ SourcePic(image_path).exists
    /\ file_needs_update(src_pics[image_path], dst_pics[image_path])
    /\ ~src_pics[image_path].readable
    /\ Continue(image_path)

\* lines 331-335
AllImages == {image_path \in DOMAIN src_pics : src_pics[image_path].exists}

\* line 358
UnusedCount == Cardinality(AllImages) - Cardinality(used_images)

LeaveCopy ==
    /\ pc = "copy" /\ todo = {}
    /\ unused_count' = UnusedCount
    /\ pc' = "readme"
    /\ UNCHANGED <<cfg, fs_dirs, src_docs, src_pics, dst_docs, dst_pics, readme,
                   articles, used_images, updated_files, skipped,
                   cat_i, todo, run, writes, snap, arg, ret>>

(***************************************************************************)
(* generate_readme, show_statistics and the next run                       *)
(***************************************************************************)
\* lines 416-417: readme_path.write_text
GenerateReadme ==
    /\ pc = "readme"
    /\ readme' = [exists |-> TRUE,
                  content |-> generate_readme(cfg.categories, articles)]
    /\ writes' = [writes EXCEPT !.readme = @ + 1]
    /\ pc' = "stats"
    /\ UNCHANGED <<cfg, fs_dirs, src_docs, src_pics, dst_docs, dst_pics,
                   articles, used_images, updated_files, skipped, unused_count,
                   cat_i, todo, run, snap, arg, ret>>

ShowStatistics ==
    /\ pc = "stats"
    /\ pc' = "done"
    /\ UNCHANGED <<cfg, fs_dirs, src_docs, src_pics, dst_docs, dst_pics, readme,
                   articles, used_images, updated_files, skipped, unused_count,
                   cat_i, todo, run, writes, snap, arg, ret>>

Destination == [docs |-> dst_docs, pics |-> dst_pics, readme |-> readme]

\* main() once more, source and configuration as they are: a new
\* HugoBlogBackup, then backup()
SecondRun ==
    /\ pc = "done" /\ run = 1
    /\ run' = 2
    /\ pc' = "start"
    /\ articles' = InitArticles(cfg)
    /\ used_images' = {}
    /\ updated_files' = <<>>
    /\ skipped' = {}
    /\ unused_count' = 0
    /\ cat_i' = 0
    /\ writes' = NoWrites
    /\ snap' = Destination
    /\ UNCHANGED <<cfg, fs_dirs, src_docs, src_pics, dst_docs, dst_pics, readme,
                   todo, arg, ret>>

(***************************************************************************)
(* The states a run starts from.                                           *)
(***************************************************************************)
SourceDoc(r, readable) == [exists |-> TRUE, readable |-> readable, raw |-> r]

\* a destination document as a run may find it: missing, as the source now
\* renders ("same"), with other text ("stale"), unreadable ("locked"),
\* read-only, or under a directory that cannot be created ("blocked")
TargetTags == {"absent", "same", "stale", "locked", "readonly", "blocked"}

TargetDoc(tag, r) ==
    [exists |-> tag \in {"same", "stale", "locked", "readonly"},
     readable |-> tag # "locked",
     writable |-> tag # "readonly",
     dir_ok |-> tag # "blocked",
     content |-> CASE tag \in {"same", "locked"} -> process_markdown_content(r, DefaultCfg)
                   [] tag \in {"stale", "readonly"} -> StaleContent
                   [] OTHER -> NoContent]

\* the source trees of up to MaxDocs documents, with a destination for each
Trees ==
    {t \in UNION {[src : [S -> [raw : RawDocs, readable : BOOLEAN]],
                   dst : [S -> TargetTags]] :
                     S \in {X \in SUBSET DocSlots : Cardinality(X) <= MaxDocs}} :
        \A f \in DOMAIN t.src :
            /\ f \notin RealSlots =>
                   t.src[f] = [raw |-> RawA, readable |-> TRUE] /\ t.dst[f] = "absent"
            /\ ~t.src[f].readable => t.src[f].raw = RawA
            /\ t.dst[f] = "blocked" => f.dir # ""}

\* trees of readable documents with nothing in the destination
PlainTrees ==
    {t \in Trees : \A f \in DOMAIN t.src :
        f \in RealSlots /\ t.src[f].readable /\ t.dst[f] = "absent"}

SourceTree(t) ==
    [f \in DocSlots |->
        IF f \in DOMAIN t.src THEN SourceDoc(t.src[f].raw, t.src[f].readable)
        ELSE NoDoc]

TargetTree(t) ==
    [f \in DocSlots |->
        IF f \in DOMAIN t.src THEN TargetDoc(t.dst[f], t.src[f].raw) ELSE NoTarget]

Pic(exists, readable, data) == [exists |-> exists, readable |-> readable, data |-> data]

DefaultSourcePics ==
    (PicA :> Pic(TRUE, TRUE, 1)) @@ (PicB :> NoPic) @@ (PicC :> Pic(TRUE, TRUE, 1))

NoTargetPics == [p \in Assets |-> NoPic]

\* source assets: missing, readable or unreadable
SourcePics ==
    {sp \in [Assets -> {NoPic, Pic(TRUE, TRUE, 1), Pic(TRUE, FALSE, 1)}] :
        sp[PicC].readable}

\* destination assets: missing, the bytes of the source, other bytes, or
\* unreadable
TargetPics ==
    {tp \in [Assets -> {NoPic, Pic(TRUE, TRUE, 1), Pic(TRUE, TRUE, 2),
                        Pic(TRUE, FALSE, 1)}] :
        /\ tp[PicB] \in {NoPic, Pic(TRUE, TRUE, 1)}
        /\ tp[PicC] \in {NoPic, Pic(TRUE, TRUE, 2)}}

\* configurations: the categories of paths.source_dirs and of
\* readme.categories, each in its order in the file
Configs ==
    {[DefaultCfg EXCEPT !.source_keys = k, !.categories = c] :
        k \in {<<"posts", "notes", "pics">>, <<"pics", "notes", "posts">>,
               <<"posts", "notes">>},
        c \in {DefaultCfg.categories,
               <<DefaultCfg.categories[1]>>,
               <<[key |-> "pages", name |-> "pages", has_order |-> FALSE, order |-> 1],
                 [key |-> "notes", name |-> "notes", has_order |-> TRUE, order |-> 1],
                 [key |-> "posts", name |-> "posts", has_order |-> TRUE, order |-> 1]>>}}

AllDirs == {"posts", "notes", "pics"}

Begin(c, dirs, t, sp, tp) ==
    /\ cfg = c
    /\ fs_dirs = dirs
    /\ src_docs = SourceTree(t)
    /\ dst_docs = TargetTree(t)
    /\ src_pics = sp
    /\ dst_pics = tp
    /\ readme = [exists |-> FALSE, content |-> <<>>]
    /\ Construct(c)
    /\ skipped = {}
    /\ unused_count = 0
    /\ pc = "start"
    /\ cat_i = 0
    /\ todo = {}
    /\ run = 1
    /\ writes = NoWrites
    /\ snap = [docs |-> TargetTree(t), pics |-> tp,
               readme |-> [exists |-> FALSE, content |-> <<>>]]
    /\ arg = <<>>
    /\ ret = <<>>

\* every tree, the assets and the configuration at their defaults
InitTrees ==
    \E t \in Trees : Begin(DefaultCfg, AllDirs, t, DefaultSourcePics, NoTargetPics)

\* every state of the asset directories, under two trees
InitPics ==
    \E t \in {u \in PlainTrees : RealSlots \ {SlotB} \subseteq DOMAIN u.src
                                    /\ u.src[SlotA].raw = RawA} :
        \E sp \in SourcePics : \E tp \in TargetPics :
            Begin(DefaultCfg, AllDirs, t, sp, tp)

\* every configuration and every set of source directories
InitCfg ==
    \E c \in Configs : \E dirs \in {AllDirs, AllDirs \ {"notes"}, AllDirs \ {"pics"}} :
        \E t \in {u \in PlainTrees : \A f \in DOMAIN u.src : f.cat \in dirs} :
            Begin(c, dirs, t, IF "pics" \in dirs THEN DefaultSourcePics ELSE NoTargetPics,
                  NoTargetPics)

Init == InitTrees \/ InitPics \/ InitCfg

Next ==
    \/ Start
    \/ SkipPics
    \/ SourceDirMissing
    \/ EnterCategory
    \/ LeaveCategory
    \/ \E f \in DocSlots :
           \/ SkipNotMarkdown(f)
           \/ IgnoreFile(f)
           \/ MkdirFails(f)
           \/ ReadFails(f)
           \/ NoBucket(f)
           \/ SkipUnchanged(f)
           \/ WriteFile(f)
           \/ WriteFails(f)
    \/ CategoriesDone
    \/ NoPicsDir
    \/ EnterCopy
    \/ \E image_path \in Assets :
           \/ DanglingReference(image_path)
           \/ SkipImage(image_path)
           \/ CopyImage(image_path)
           \/ CopyFails(image_path)
    \/ LeaveCopy
    \/ GenerateReadme
    \/ ShowStatistics
    \/ SecondRun

Spec == Init /\ [][Next]_vars

(***************************************************************************)
(* Function specifications: one call of a function on an input drawn from  *)
(* a bounded set.  The run's own state is idle in them.                    *)
(***************************************************************************)
Idle ==
    /\ cfg = <<>> /\ fs_dirs = {} /\ src_docs = <<>> /\ src_pics = <<>>
    /\ dst_docs = <<>> /\ dst_pics = <<>> /\ readme = <<>> /\ articles = <<>>
    /\ used_images = {} /\ updated_files = <<>> /\ skipped = {}
    /\ unused_count = 0 /\ cat_i = 0 /\ todo = {} /\ run = 0
    /\ writes = <<>> /\ snap = <<>>

Return(value) ==
    /\ pc = "call"
    /\ pc' = "return"
    /\ ret' = value
    /\ UNCHANGED <<cfg, fs_dirs, src_docs, src_pics, dst_docs, dst_pics, readme,
                   articles, used_images, updated_files, skipped, unused_count,
                   cat_i, todo, run, writes, snap, arg>>

\* extract_date_from_filename on every filename of up to MaxNameLen characters
NameChars == {"0", "1", "_"}

DateFormats == {"YYYY-MM-DD", "long"}

InitDate ==
    /\ Idle
    /\ pc = "call"
    /\ arg \in [filename : SeqsUpTo(NameChars, MaxNameLen), date_format : DateFormats]
    /\ ret = NoDate

CallExtractDate == Return(extract_date_from_filename(arg.filename, arg.date_format))

NextDate == CallExtractDate

SpecDate == InitDate /\ [][NextDate]_vars

\* fix_paths_in_content on one link, under every list of up to MaxPatterns
\* from-prefixes
PathChars == {"a", "b"}

Prefixes == SeqsUpTo(PathChars, 2) \ {<<>>}

InitFix ==
    /\ Idle
    /\ pc = "call"
    /\ arg \in [from_patterns : SeqsUpTo(Prefixes, MaxPatterns),
                to_pattern : SeqsUpTo(PathChars, 2),
                link : [img : BOOLEAN, alt : {<<>>, <<"x">>},
                        path : SeqsUpTo(PathChars, MaxPathLen) \ {<<>>}, close : {0}]]
    /\ ret = arg.link

CallFixPaths ==
    Return(fix_paths_in_content(<<arg.link>>, arg.from_patterns, arg.to_pattern,
                                <<>>)[1])

NextFix == CallFixPaths

SpecFix == InitFix /\ [][NextFix]_vars

\* generate_readme on every readme.categories of up to MaxCats categories
CategoryKeys == {"links", "notes", "pages", "posts"}

Orders == {1, 2, 1000}

CategoryConfigs ==
    {[key |-> k, name |-> k, has_order |-> h, order |-> o] :
        k \in CategoryKeys, h \in BOOLEAN, o \in Orders}

\* a JSON object has one entry per key; an entry without "order" has no order
CategoryLists ==
    {q \in SeqsUpTo(CategoryConfigs, MaxCats) :
        /\ \A i, j \in 1..Len(q) : q[i].key = q[j].key => i = j
        /\ \A i \in 1..Len(q) : ~q[i].has_order => q[i].order = 1}

Article(name, date_format) ==
    LET d == extract_date_from_filename(name, date_format)
    IN [title |-> name, filename |-> name, path |-> name,
        year |-> d.year, month |-> d.month, day |-> d.day, date_str |-> d.date_str]

Buckets ==
    {<<>>,
     <<Article(NamePost, "YYYY-MM-DD")>>,
     <<Article(NameOld, "YYYY-MM-DD"), Article(NameJan, "YYYY-MM-DD"),
       Article(NamePost, "YYYY-MM-DD"), Article(NameMar, "YYYY-MM-DD"),
       Article(NameJanB, "YYYY-MM-DD")>>}

InitReadme ==
    /\ Idle
    /\ pc = "call"
    /\ \E q \in CategoryLists :
           \E b \in [{q[i].key : i \in 1..Len(q)} -> Buckets] :
               arg = [categories |-> q, articles |-> b]
    /\ ret = <<>>

CallGenerateReadme == Return(generate_readme(arg.categories, arg.articles))

NextReadme == CallGenerateReadme

SpecReadme == InitReadme /\ [][NextReadme]_vars

(***************************************************************************)
(* What a run has done so far.                                             *)
(***************************************************************************)
CatIndex(k) == CHOOSE i \in 1..Len(cfg.source_keys) : cfg.source_keys[i] = k

InSourceDirs(k) == \E i \in 1..Len(cfg.source_keys) : cfg.source_keys[i] = k

\* the documents the pass has to process: the files with an allowlisted
\* extension and a name that is not ignored, under the source directory of a
\* category of the path mapping
Documents ==
    {f \in DocSlots : /\ src_docs[f].exists
                      /\ InSourceDirs(f.cat) /\ f.cat \in fs_dirs
                      /\ Passes(f)}

\* the documents the loop of process_markdown_files has gone through
Visited ==
    {f \in Documents :
        \/ CatIndex(f.cat) < cat_i
        \/ CatIndex(f.cat) = cat_i /\ pc \in {"docs", "failed"} /\ f \notin todo}

PassOver == pc \in {"pics", "copy", "readme", "stats", "done"}

CopyOver == pc \in {"readme", "stats", "done"}

(***************************************************************************)
(* C1: a second run on unchanged source and configuration writes nothing   *)
(* to the destination (no document, no asset, no manifest) and leaves it   *)
(* as the first run left it.                                               *)
(***************************************************************************)
C1_Idempotent ==
    (run = 2 /\ pc = "done") => (writes = NoWrites /\ Destination = snap)

(***************************************************************************)
(* C2: when a run that started with an empty destination asset root is     *)
(* over, the files of the destination asset root are the referenced paths  *)
(* that exist in the source asset root; an asset no document references is *)
(* neither copied nor touched.  (Source assets that cannot be read are     *)
(* left out of the comparison.)                                            *)
(***************************************************************************)
C2_AssetMinimality ==
    /\ (/\ pc \in {"done", "failed"}
        /\ \A p \in Assets : ~snap.pics[p].exists)
       => {p \in Assets : dst_pics[p].exists}
              \cup {p \in Assets : src_pics[p].exists /\ ~src_pics[p].readable}
          = {p \in used_images : SourcePic(p).exists}
              \cup {p \in Assets : src_pics[p].exists /\ ~src_pics[p].readable}
    /\ \A p \in Assets \ used_images : dst_pics[p] = snap.pics[p]

(***************************************************************************)
(* C3: a processed document is written exactly when its destination file   *)
(* is missing or holds text other than the rendered text.  (Documents      *)
(* whose source or destination cannot be read or written are left out.)    *)
(***************************************************************************)
C3_ChangeDetection ==
    \A f \in Visited :
        (src_docs[f].readable /\ snap.docs[f].readable /\ snap.docs[f].writable) =>
            (f \in writes.docs <=>
                \/ ~snap.docs[f].exists
                \/ snap.docs[f].content # process_markdown_content(src_docs[f].raw, cfg))

(***************************************************************************)
(* C4: an image is skipped as unchanged only when both digests were        *)
(* computed and are equal.                                                 *)
(***************************************************************************)
C4_NoSkipOnDigestFailure ==
    \A p \in skipped :
        /\ get_file_hash(src_pics[p]) # Str0
        /\ get_file_hash(dst_pics[p]) # Str0
        /\ get_file_hash(src_pics[p]) = get_file_hash(dst_pics[p])

(***************************************************************************)
(* C7: the orphan count reported by copy_used_images is the number of      *)
(* files of the source asset root that no processed document references.   *)
(***************************************************************************)
C7_OrphanCount ==
    (CopyOver /\ HasPics) =>
        unused_count = Cardinality({p \in AllImages : p \notin used_images})

(***************************************************************************)
(* C8: after the pass, the bucket of every category of the path mapping    *)
(* holds exactly one record for each of its documents.  (Documents that    *)
(* cannot be read are left out.)                                           *)
(***************************************************************************)
C8_EveryDocumentRecorded ==
    PassOver =>
        \A f \in Documents : src_docs[f].readable =>
            /\ f.cat \in DOMAIN articles
            /\ Cardinality({i \in 1..Len(articles[f.cat]) :
                               articles[f.cat][i].path = TargetPath(f)}) = 1

(***************************************************************************)
(* C9: no failure of a step for one document ends the run: backup() does   *)
(* not raise.                                                              *)
(***************************************************************************)
C9_RunCompletes == pc # "failed"

(***************************************************************************)
(* C5: for every filename, the record's year is 0 exactly when its         *)
(* date_str is empty.                                                      *)
(***************************************************************************)
C5_DateInvariant ==
    pc = "return" => (ret.year = 0 <=> ret.date_str = Str0)

(***************************************************************************)
(* C10: an image link is rewritten at most once: its final path is the     *)
(* to-prefix followed by what follows the first from-prefix (in configured *)
(* order) that rewrites the original path, and it is unchanged when no     *)
(* from-prefix does.                                                       *)
(***************************************************************************)
C10_Rewrites(link, from_patterns) ==
    {i \in 1..Len(from_patterns) :
        /\ link.img
        /\ StartsWith(link.path, from_patterns[i])
        /\ Len(link.path) > Len(from_patterns[i])}

C10_RewriteOnce ==
    pc = "return" =>
        LET hits == C10_Rewrites(arg.link, arg.from_patterns)
            first == CHOOSE i \in hits : \A j \in hits : i <= j
        IN ret.path = IF hits = {} THEN arg.link.path
                      ELSE arg.to_pattern
                               \o Drop(arg.link.path, Len(arg.from_patterns[first]))

(***************************************************************************)
(* C6: the manifest has exactly one section for every configured category, *)
(* a category with an empty bucket renders the placeholder, and the        *)
(* sections are in ascending order of the ordering key, a category without *)
(* an ordering key counting as 999 and equal keys keeping the order of the *)
(* configuration.                                                          *)
(***************************************************************************)
C6_Index(key) == CHOOSE i \in 1..Len(arg.categories) : arg.categories[i].key = key

C6_OneSectionEach ==
    /\ Len(ret) = Len(arg.categories)
    /\ \A r \in 1..Len(ret) : \E i \in 1..Len(arg.categories) :
           ret[r].key = arg.categories[i].key
    /\ \A r, q \in 1..Len(ret) : ret[r].key = ret[q].key => r = q
    /\ \A r \in 1..Len(ret) :
           /\ ret[r].placeholder <=> arg.articles[ret[r].key] = <<>>
           /\ ret[r].placeholder => ret[r].years = <<>> /\ ret[r].other = <<>>

C6_Key(c) == IF c.has_order THEN c.order ELSE 999

C6_ManifestSections ==
    pc = "return" =>
        /\ C6_OneSectionEach
        /\ \A r, q \in 1..Len(ret) : r < q =>
               LET i == C6_Index(ret[r].key)
                   j == C6_Index(ret[q].key)
               IN \/ C6_Key(arg.categories[i]) < C6_Key(arg.categories[j])
                  \/ /\ C6_Key(arg.categories[i]) = C6_Key(arg.categories[j])
                     /\ i < j

\* C6, the case reached: a manifest of two categories with equal ordering
\* keys, configured against the alphabet, one of them empty
C6_Witness ==
    /\ pc = "return"
    /\ Len(arg.categories) = 2
    /\ arg.categories[1].has_order /\ arg.categories[2].has_order
    /\ arg.categories[1].order = arg.categories[2].order
    /\ arg.categories[1].key = "posts" /\ arg.categories[2].key = "notes"
    /\ arg.articles["notes"] = <<>> /\ arg.articles["posts"] # <<>>
    /\ ret[1].key = "posts" /\ ret[2].placeholder

\* C6 as written: the sections are in ascending order of the ordering key,
\* categories without an ordering key last, equal keys in the order of the
\* category identifiers
C6_KeyRank(key) ==
    CASE key = "links" -> 1
      [] key = "notes" -> 2
      [] key = "pages" -> 3
      [] key = "posts" -> 4

C6_ManifestOrder ==
    pc = "return" =>
        /\ C6_OneSectionEach
        /\ \A r, q \in 1..Len(ret) : r < q =>
               LET a == arg.categories[C6_Index(ret[r].key)]
                   b == arg.categories[C6_Index(ret[q].key)]
               IN \/ a.has_order /\ ~b.has_order
                  \/ /\ a.has_order = b.has_order
                     /\ \/ a.has_order /\ a.order < b.order
                        \/ /\ a.has_order => a.order = b.order
                           /\ C6_KeyRank(a.key) < C6_KeyRank(b.key)

====
